---- MODULE Spec2Model ----
(***************************************************************************)
(* Model of actix-protobuf (src/actix-protobuf/src/lib.rs): the bounded    *)
(* streaming decoder ProtoBufMessage, its error taxonomy and the rendering *)
(* of errors and values into HTTP responses.                               *)
(*                                                                         *)
(* One behaviour is one request: the request arrives with a content type,  *)
(* a Content-Length header and a payload whose items (chunks, transport    *)
(* errors, end-of-stream) arrive one at a time; ProtoBufMessage::new       *)
(* builds the decode attempt, limit() may change its limit, and poll()     *)
(* drives it.                                                              *)
(***************************************************************************)
EXTENDS Integers, Sequences, FiniteSets, TLC

\* ------------------------------------------------------------------ bounds
MaxChunks == 2
MaxLimit == 3
MaxRemaining == 2

\* ------------------------------------------------------- program constants
DefaultLimit == 262144
PROTOBUF == "application/protobuf"
PayloadTooLarge == 413
BadRequest == 400
StatusOk == 200

\* ------------------------------------------------------------ input spaces
\* Values req.content_type() can return; "" is what it returns when the
\* header is absent.
ContentTypes == {"", "application/text", PROTOBUF}

\* A header value is a sequence of characters; "0x80" stands for one byte
\* outside visible ASCII.
NoHeader == <<"<absent>">>
ContentLengths ==
    { NoHeader,
      <<"2">>, <<"+", "3">>, <<"4">>, <<"-", "1">>, <<"0x80">>,
      <<"2", "6", "2", "1", "4", "5">> }

\* Body bytes: 8 is the protobuf key of field 1 with wire type varint,
\* 1 is both a one-byte varint and the key of field 0 with wire type 64-bit.
Bytes == {1, 8}
TransportErrors == {"Incomplete", "Overflow"}

RECURSIVE SeqsUpTo(_, _)
SeqsUpTo(S, n) ==
    IF n = 0 THEN { <<>> }
    ELSE LET shorter == SeqsUpTo(S, n - 1)
         IN  shorter \cup { Append(s, x) : s \in { t \in shorter : Len(t) = n - 1 }, x \in S }

Chunk(d) == [t |-> "chunk", data |-> d, err |-> ""]
TransportError(e) == [t |-> "err", data |-> <<>>, err |-> e]
Eos == [t |-> "eos", data |-> <<>>, err |-> ""]

\* The chunks a payload can deliver: empty, one byte, two bytes.
ChunkData == { <<>>, <<8>>, <<1>>, <<8, 1>> }
Items == { Chunk(d) : d \in ChunkData } \cup { TransportError(e) : e \in TransportErrors }
\* A payload delivers at most MaxChunks items and then end-of-stream.
Scripts == { Append(s, Eos) : s \in SeqsUpTo(Items, MaxChunks) }

Limits == 0 .. MaxLimit

\* ----------------------------------------------------------------- options
NoneLen == [some |-> FALSE, v |-> 0]
SomeLen(n) == [some |-> TRUE, v |-> n]

\* ------------------------------------------------ Content-Length parsing
VisibleAscii == {"0", "1", "2", "3", "4", "5", "6", "7", "8", "9", "+", "-", "a"}
DigitChars == {"0", "1", "2", "3", "4", "5", "6", "7", "8", "9"}
DigitVal(c) ==
    CASE c = "0" -> 0 [] c = "1" -> 1 [] c = "2" -> 2 [] c = "3" -> 3 [] c = "4" -> 4
      [] c = "5" -> 5 [] c = "6" -> 6 [] c = "7" -> 7 [] c = "8" -> 8 [] c = "9" -> 9

\* HeaderValue::to_str: fails unless every byte is visible ASCII.
ToStrOk(h) == \A i \in 1 .. Len(h) : h[i] \in VisibleAscii

RECURSIVE DigitsValue(_, _)
DigitsValue(s, acc) ==
    IF s = <<>> THEN acc ELSE DigitsValue(Tail(s), acc * 10 + DigitVal(Head(s)))

\* str::parse::<usize>: an optional leading "+", then one or more decimal
\* digits; everything else (empty, lone sign, "-", letters) is an error.
ParseUsize(s) ==
    LET digits == IF s # <<>> /\ Head(s) = "+" THEN Tail(s) ELSE s
    IN  IF digits # <<>> /\ \A i \in 1 .. Len(digits) : digits[i] \in DigitChars
        THEN SomeLen(DigitsValue(digits, 0))
        ELSE NoneLen

\* The declared length computed by ProtoBufMessage::new.
DeclaredLength(h) ==
    IF h = NoHeader THEN NoneLen
    ELSE IF ~ToStrOk(h) THEN NoneLen
    ELSE ParseUsize(h)

\* ------------------------------------------------------------ the codec
\* prost's Message::decode for the message type of the crate's tests
\* (MyObject, field 1 = int32 number), on the byte alphabet Bytes.  The
\* result is the message (its number) or a decode error.
DecodeOk(n) == [ok |-> TRUE, msg |-> n, err |-> ""]
DecodeErr(e) == [ok |-> FALSE, msg |-> 0, err |-> e]

RECURSIVE MergeFrom(_, _)
MergeFrom(buf, number) ==
    IF buf = <<>> THEN DecodeOk(number)
    ELSE LET key == Head(buf)
             wire_type == key % 8
             tag == key \div 8
             rest == Tail(buf)
         IN  IF wire_type \notin {0, 1, 2, 3, 4, 5} THEN DecodeErr("invalid wire type value")
             ELSE IF tag = 0 THEN DecodeErr("invalid tag value: 0")
             ELSE IF tag = 1 /\ wire_type # 0 THEN DecodeErr("invalid wire type")
             ELSE IF rest = <<>> THEN DecodeErr("invalid varint")
             ELSE IF tag = 1 THEN MergeFrom(Tail(rest), Head(rest))
             ELSE MergeFrom(Tail(rest), number)

Decode(buf) == MergeFrom(buf, 0)

\* prost's encoding of the same message: a field holding the default value
\* is not written.
Encode(number) == IF number = 0 THEN <<>> ELSE <<8, number>>
Messages == {0} \cup Bytes

\* ------------------------------------------------------- error taxonomy
Classes == {"Overflow", "ContentType", "Serialize", "Deserialize", "Payload"}

Overflow == [cls |-> "Overflow", msg |-> 0, err |-> ""]
ContentType == [cls |-> "ContentType", msg |-> 0, err |-> ""]
Serialize(e) == [cls |-> "Serialize", msg |-> 0, err |-> e]
Deserialize(e) == [cls |-> "Deserialize", msg |-> 0, err |-> e]
Payload(e) == [cls |-> "Payload", msg |-> 0, err |-> e]
Ok(m) == [cls |-> "Ok", msg |-> m, err |-> ""]

FromPayloadError_flat(e) == IF e = "Overflow" THEN Overflow ELSE Payload(e)

\* impl From<PayloadError> for ProtoBufPayloadError
FromPayloadError(e) == Payload(e)

\* impl From<ProtoBufDecodeError> for ProtoBufPayloadError
FromDecodeError(e) == Deserialize(e)

error_response_allBad(e) == BadRequest

\* impl ResponseError for ProtoBufPayloadError
error_response(e) == IF e.cls = "Overflow" THEN PayloadTooLarge ELSE BadRequest

\* ------------------------------------------------------------------ state
VARIABLES
    pc,           \* "request": new() not yet called; "built": the attempt exists
    content_type, \* req.content_type()
    content_length, \* the Content-Length header of the request
    source,       \* the whole body the transport will deliver, in order
    script,       \* items the transport has not delivered yet
    avail,        \* items delivered to the payload and not yet pulled
    payload,      \* the caller's payload slot: "Some" or "None" (taken)
    limit,        \* ProtoBufMessage.limit
    length,       \* ProtoBufMessage.length
    stream,       \* ProtoBufMessage.stream: "Some" or "None"
    err,          \* ProtoBufMessage.err: "None" or "ContentType"
    fut,          \* ProtoBufMessage.fut and the locals of its async block
    outcomes,     \* the Ready values poll has returned, in order
    pulled,       \* the items stream.next() has returned, in order
    decodeCalls,  \* the buffers decode has been invoked on, in order
    lastPoll,     \* how the latest poll ended: "none", "Pending", "Ready", "panic"
    waker,        \* TRUE when the payload holds the task's waker
    woken,        \* TRUE when the task awaiting the attempt is scheduled
    resp,         \* the HTTP response rendered for the request
    config,       \* the ProtoBufConfig registered as app data, if any
    builder,      \* the HttpResponseBuilder of the handler
    bearer,       \* the Bearer challenge being built
    header        \* the rendered value of the Bearer challenge

vars == <<pc, content_type, content_length, source, script, avail, payload, limit,
          length, stream, err, fut, outcomes, pulled, decodeCalls, lastPoll,
          waker, woken, resp, config, builder, bearer, header>>

otherVars == <<config, builder, bearer, header>>

reqVars == <<content_type, content_length, source>>
msgVars == <<limit, length, stream, err, fut>>
obsVars == <<outcomes, pulled, decodeCalls, lastPoll>>

NoFut == [state |-> "None", limit |-> 0, body |-> <<>>]
NoResp == [status |-> 0, content_type |-> "", body |-> <<>>, error |-> "None"]

\* ProtoBufConfig: Default::default() and limit().  calls counts the
\* limit() calls made on the value.
NoConfig == [some |-> FALSE, limit |-> 0, calls |-> 0]
ConfigDefault == [some |-> TRUE, limit |-> 262144, calls |-> 0]
ConfigLimit(c, l) == [c EXCEPT !.limit = l, !.calls = c.calls + 1]
Configs == {NoConfig, ConfigDefault} \cup { ConfigLimit(ConfigDefault, l) : l \in Limits }

NewBuilder == [status |-> StatusOk, content_type |-> "", res |-> "Some"]
NoBearer == [realm |-> "None", scope |-> "None", error |-> "None",
             error_description |-> "None", error_uri |-> "None"]

\* A request has arrived; nothing has been built for it yet.
InitRequest ==
    /\ pc = "request"
    /\ content_type \in ContentTypes
    /\ content_length \in ContentLengths
    /\ source \in Scripts
    /\ script = source
    /\ avail = <<>>
    /\ payload = "Some"
    /\ limit = DefaultLimit
    /\ length = NoneLen
    /\ stream = "None"
    /\ err = "None"
    /\ fut = NoFut
    /\ outcomes = <<>>
    /\ pulled = <<>>
    /\ decodeCalls = <<>>
    /\ lastPoll = "none"
    /\ waker = FALSE
    /\ woken = FALSE
    /\ resp = NoResp
    /\ builder = NewBuilder
    /\ bearer = NoBearer
    /\ header = <<>>

\* The attempt is built by the caller itself: no app data is involved.
Init ==
    /\ InitRequest
    /\ config = NoConfig

\* The request is handled by an app that may have registered a config.
InitExtract ==
    /\ InitRequest
    /\ config \in Configs

\* ---------------------------------------------------------------- actions
\* The transport delivers the next item of the body to the payload, which
\* wakes the task whose waker it holds.
Deliver ==
    /\ script # <<>>
    /\ avail' = Append(avail, Head(script))
    /\ script' = Tail(script)
    /\ waker' = FALSE
    /\ woken' = (woken \/ waker)
    /\ UNCHANGED <<pc, reqVars, payload, msgVars, obsVars, resp, otherVars>>

ContentTypeMatches_nonempty(ct) == ct # ""

ContentTypeMatches_always(ct) == TRUE

\* req.content_type() != "application/protobuf"
ContentTypeMatches(ct) == ct = PROTOBUF

\* The fields ProtoBufMessage::new gives the attempt besides limit
\* (262_144), and its effect on the caller's payload slot.
NewFields ==
    /\ fut' = NoFut
    /\ IF ~ContentTypeMatches(content_type)
       THEN /\ length' = NoneLen
            /\ stream' = "None"
            /\ err' = "ContentType"
            /\ UNCHANGED payload
       ELSE /\ length' = DeclaredLength(content_length)
            /\ stream' = "Some"
            /\ payload' = "None"
            /\ err' = "None"

\* ProtoBufMessage::new(req, payload)
New ==
    /\ pc = "request"
    /\ pc' = "built"
    /\ NewFields
    /\ limit' = DefaultLimit
    /\ woken' = TRUE
    /\ UNCHANGED <<reqVars, script, avail, obsVars, waker, resp, otherVars>>

\* ProtoBufMessage::limit(limit)
SetLimit(l) ==
    /\ pc = "built"
    /\ limit' = l
    /\ UNCHANGED <<pc, reqVars, script, avail, payload, length, stream, err, fut,
                   obsVars, waker, woken, resp, otherVars>>

DeclaredTooLong_default(len, lim) == len > DefaultLimit

DeclaredTooLong_atLimit(len, lim) == len >= lim

\* The declared-length check of poll (len > limit).
DeclaredTooLong(len, lim) == len > lim

ChunkOverflows_bodyOnly(bodyLen, chunkLen, lim) == bodyLen > lim

ChunkOverflows_chunkOnly(bodyLen, chunkLen, lim) == chunkLen > lim

ChunkOverflows_atLimit(bodyLen, chunkLen, lim) == bodyLen + chunkLen >= lim

\* The per-chunk check of the async block ((body.len() + chunk.len()) > limit).
ChunkOverflows(bodyLen, chunkLen, lim) == bodyLen + chunkLen > lim

Extend_prepend(body, chunk) == chunk \o body

Extend_overwrite(body, chunk) == chunk

\* body.extend_from_slice(&chunk)
Extend(body, chunk) == body \o chunk

\* Ok(<T>::decode(&mut body)?)
DecodeOutcome(body) ==
    LET d == Decode(body)
    IN  IF d.ok THEN Ok(d.msg) ELSE FromDecodeError(d.err)

Drive_one(lim, body, av, pl) ==
    IF av = <<>>
    THEN [ret |-> "Pending", out |-> Overflow, body |-> body, avail |-> av,
          pulled |-> pl, decoded |-> <<>>]
    ELSE LET item == Head(av)
             rest == Tail(av)
             got == Append(pl, item)
         IN  CASE item.t = "eos" ->
                    [ret |-> "Ready", out |-> DecodeOutcome(body), body |-> body,
                     avail |-> rest, pulled |-> got, decoded |-> <<body>>]
               [] item.t = "err" ->
                    [ret |-> "Ready", out |-> FromPayloadError(item.err), body |-> body,
                     avail |-> rest, pulled |-> got, decoded |-> <<>>]
               [] item.t = "chunk" ->
                    IF ChunkOverflows(Len(body), Len(item.data), lim)
                    THEN [ret |-> "Ready", out |-> Overflow, body |-> body,
                          avail |-> rest, pulled |-> got, decoded |-> <<>>]
                    ELSE [ret |-> "Pending", out |-> Overflow,
                          body |-> Extend(body, item.data), avail |-> rest,
                          pulled |-> got, decoded |-> <<>>]

\* One resumption of the async block: it pulls the available items one at a
\* time until it returns or the payload has nothing available.  body is the
\* buffer, av the available items, pl the items pulled so far.  The result
\* holds the buffer as it is when the block suspends or returns.
RECURSIVE Drive(_, _, _, _)
Drive(lim, body, av, pl) ==
    IF av = <<>>
    THEN [ret |-> "Pending", out |-> Overflow, body |-> body, avail |-> av,
          pulled |-> pl, decoded |-> <<>>]
    ELSE LET item == Head(av)
             rest == Tail(av)
             got == Append(pl, item)
         IN  CASE item.t = "eos" ->
                    [ret |-> "Ready", out |-> DecodeOutcome(body), body |-> body,
                     avail |-> rest, pulled |-> got, decoded |-> <<body>>]
               [] item.t = "err" ->
                    [ret |-> "Ready", out |-> FromPayloadError(item.err), body |-> body,
                     avail |-> rest, pulled |-> got, decoded |-> <<>>]
               [] item.t = "chunk" ->
                    IF ChunkOverflows(Len(body), Len(item.data), lim)
                    THEN [ret |-> "Ready", out |-> Overflow, body |-> body,
                          avail |-> rest, pulled |-> got, decoded |-> <<>>]
                    ELSE Drive(lim, Extend(body, item.data), rest, got)

\* A poll ends by returning Ready(out), by returning Pending, or by a panic.
\* Only a stream.next() that finds nothing available leaves the task's
\* waker with the payload; the payload is dropped when the block returns.
Returns(out) ==
    /\ outcomes' = Append(outcomes, out)
    /\ lastPoll' = "Ready"
    /\ waker' = FALSE

Suspends ==
    /\ lastPoll' = "Pending"
    /\ waker' = TRUE
    /\ UNCHANGED outcomes

Panics ==
    /\ lastPoll' = "panic"
    /\ UNCHANGED <<outcomes, pulled, decodeCalls, avail, waker>>

\* Pin::new(fut).poll(task): resumes the async block; resuming a block that
\* has already returned panics.
PollFut(f) ==
    IF f.state = "Done"
    THEN /\ Panics
         /\ fut' = f
    ELSE LET r == Drive(f.limit, f.body, avail, pulled)
         IN  /\ avail' = r.avail
             /\ pulled' = r.pulled
             /\ decodeCalls' = decodeCalls \o r.decoded
             /\ fut' = [state |-> IF r.ret = "Ready" THEN "Done" ELSE "Running",
                        limit |-> f.limit, body |-> r.body]
             /\ IF r.ret = "Ready"
                THEN Returns(r.out)
                ELSE Suspends

FirstPoll_noDrive(f) ==
    /\ fut' = f
    /\ lastPoll' = "Pending"
    /\ UNCHANGED <<outcomes, pulled, decodeCalls, avail, waker>>

\* self.fut = Some(block); self.poll(task): the poll that creates the block
\* resumes it at once.
FirstPoll(f) == PollFut(f)

\* <ProtoBufMessage as Future>::poll
PollMessage ==
    /\ IF fut.state # "None"
       THEN /\ PollFut(fut)
            /\ UNCHANGED <<length, stream, err>>
       ELSE IF err # "None"
       THEN /\ err' = "None"
            /\ Returns(ContentType)
            /\ UNCHANGED <<length, stream, fut, pulled, decodeCalls, avail>>
       ELSE /\ length' = NoneLen
            /\ IF length.some /\ DeclaredTooLong(length.v, limit)
               THEN /\ Returns(Overflow)
                    /\ UNCHANGED <<stream, err, fut, pulled, decodeCalls, avail>>
               ELSE IF stream = "None"
               THEN /\ Panics
                    /\ UNCHANGED <<stream, err, fut>>
               ELSE /\ stream' = "None"
                    /\ FirstPoll([state |-> "Running", limit |-> limit, body |-> <<>>])
                    /\ UNCHANGED err
    /\ woken' = FALSE
    /\ UNCHANGED <<pc, reqVars, script, payload, limit, resp, otherVars>>

\* The attempt built with ProtoBufMessage::new is polled by anyone holding it.
Poll ==
    /\ pc = "built"
    /\ PollMessage

\* HttpResponse::from_error(Error::from(e)): the rendering of e.
FromError(e) ==
    [status |-> error_response(e), content_type |-> "", body |-> <<>>, error |-> e.cls]

OkResponse_octet(buf) ==
    [status |-> StatusOk, content_type |-> "application/octet-stream", body |-> buf,
     error |-> "None"]

\* HttpResponse::Ok().content_type("application/protobuf").body(buf)
OkResponse(buf) ==
    [status |-> StatusOk, content_type |-> PROTOBUF, body |-> buf, error |-> "None"]

\* The framework renders the error of a failed extraction
\* (from_request: Err(e) => Err(e.into())) with error_response.
RenderError ==
    /\ resp = NoResp
    /\ outcomes # <<>>
    /\ outcomes[1].cls # "Ok"
    /\ resp' = FromError(outcomes[1])
    /\ UNCHANGED <<pc, reqVars, script, avail, payload, msgVars, obsVars, waker, woken,
                   otherVars>>

\* <ProtoBuf<T> as Responder>::respond_to: the handler that received the
\* decoded message answers with the message value; encode fails when the
\* sink has fewer than encoded_len() bytes remaining.
RespondTo(value, remaining) ==
    /\ resp = NoResp
    /\ outcomes # <<>>
    /\ outcomes[1].cls = "Ok"
    /\ LET buf == Encode(value)
       IN  resp' = IF Len(buf) <= remaining
                   THEN OkResponse(buf)
                   ELSE FromError(Serialize("EncodeError"))
    /\ UNCHANGED <<pc, reqVars, script, avail, payload, msgVars, obsVars, waker, woken,
                   otherVars>>

Next ==
    \/ Deliver
    \/ New
    \/ \E l \in Limits : SetLimit(l)
    \/ Poll
    \/ RenderError
    \/ \E value \in Messages, remaining \in 0 .. MaxRemaining : RespondTo(value, remaining)

Spec == Init /\ [][Next]_vars

\* The attempt awaited by a task of the executor: the task polls it only
\* when it is scheduled, the transport keeps delivering until end-of-stream.
PollWoken ==
    /\ woken
    /\ Poll

NextLive ==
    \/ Deliver
    \/ New
    \/ \E l \in Limits : SetLimit(l)
    \/ PollWoken
    \/ RenderError
    \/ \E value \in Messages, remaining \in 0 .. MaxRemaining : RespondTo(value, remaining)

LiveSpec == Init /\ [][NextLive]_vars /\ WF_vars(PollWoken) /\ WF_vars(Deliver)

\* ------------------------------------------------------------ the extractor
FromRequestLimit_default(c) == 262144

\* req.app_data::<ProtoBufConfig>().map(|c| c.limit).unwrap_or(262_144)
FromRequestLimit(c) == IF c.some THEN c.limit ELSE 262144

\* <ProtoBuf<T> as FromRequest>::from_request: builds the attempt, sets its
\* limit and boxes it behind map(), so that nobody can call limit() later.
FromRequest ==
    /\ pc = "request"
    /\ pc' = "extracting"
    /\ NewFields
    /\ limit' = FromRequestLimit(config)
    /\ woken' = TRUE
    /\ UNCHANGED <<reqVars, script, avail, obsVars, waker, resp, otherVars>>

\* The future from_request returns.  map() panics when it is polled after it
\* has returned Ready, without polling the attempt.
PollExtractor ==
    /\ pc = "extracting"
    /\ IF outcomes # <<>>
       THEN /\ lastPoll' = "panic"
            /\ woken' = FALSE
            /\ UNCHANGED <<pc, reqVars, script, avail, payload, msgVars, outcomes,
                           pulled, decodeCalls, waker, resp, otherVars>>
       ELSE PollMessage

NextExtract ==
    \/ Deliver
    \/ New
    \/ FromRequest
    \/ Poll
    \/ PollExtractor
    \/ RenderError
    \/ \E value \in Messages, remaining \in 0 .. MaxRemaining : RespondTo(value, remaining)

ExtractSpec == InitExtract /\ [][NextExtract]_vars

\* ------------------------------------------------------ the Bearer challenge
\* The optional fields of the challenge; "None" is an absent field.
Realms == {"example"}
Scopes == {"read", "read write"}
Errors == {"InvalidRequest", "InvalidToken", "InsufficientScope"}
Descriptions == {"Subject 8740827c-2e0a-447b-9716-d73042e4039d not found"}
Uris == {"https://example.org/error"}

\* The name an error is rendered with.
ErrorStr(e) ==
    CASE e = "InvalidRequest" -> "invalid_request"
      [] e = "InvalidToken" -> "invalid_token"
      [] e = "InsufficientScope" -> "insufficient_scope"

\* One field of the rendering: nothing when absent, else a space and
\* key="value".  The rendering is kept as the sequence of its pieces.
Field(key, value) ==
    IF value = "None" THEN <<>> ELSE <<" ", key, "=\"", value, "\"">>

ToBytes_errorFirst(b) ==
    <<"Bearer">>
        \o Field("error", IF b.error = "None" THEN "None" ELSE ErrorStr(b.error))
        \o Field("realm", b.realm)
        \o Field("scope", b.scope)
        \o Field("error_description", b.error_description)
        \o Field("error_uri", b.error_uri)

\* The rendering of a challenge.
ToBytes(b) ==
    <<"Bearer">>
        \o Field("realm", b.realm)
        \o Field("scope", b.scope)
        \o Field("error", IF b.error = "None" THEN "None" ELSE ErrorStr(b.error))
        \o Field("error_description", b.error_description)
        \o Field("error_uri", b.error_uri)

\* The builder sets one field of the challenge.
SetField(name, value) ==
    /\ header = <<>>
    /\ bearer' = [bearer EXCEPT ![name] = value]
    /\ UNCHANGED <<pc, reqVars, script, avail, payload, msgVars, obsVars, waker, woken,
                   resp, config, builder, header>>

\* The challenge is finished and rendered.
Render ==
    /\ header = <<>>
    /\ header' = ToBytes(bearer)
    /\ UNCHANGED <<pc, reqVars, script, avail, payload, msgVars, obsVars, waker, woken,
                   resp, config, builder, bearer>>

InitBearer ==
    /\ InitRequest
    /\ content_type = ""
    /\ content_length = NoHeader
    /\ source = <<Eos>>
    /\ config = NoConfig

NextBearer ==
    \/ \E v \in Realms : SetField("realm", v)
    \/ \E v \in Scopes : SetField("scope", v)
    \/ \E v \in Errors : SetField("error", v)
    \/ \E v \in Descriptions : SetField("error_description", v)
    \/ \E v \in Uris : SetField("error_uri", v)
    \/ Render

BearerSpec == InitBearer /\ [][NextBearer]_vars

\* ------------------------------------------------------ response builder
\* The content types a handler may have put on its builder.
BuilderContentTypes == {"text/plain", PROTOBUF}

\* HttpResponseBuilder::insert_header((CONTENT_TYPE, ct)): replaces the
\* content type of a builder that still holds its response head.
InsertHeader(b, ct) ==
    IF b.res = "Some" THEN [b EXCEPT !.content_type = ct] ELSE b

\* The handler sets a content type on its builder.
SetContentType(ct) ==
    /\ resp = NoResp
    /\ builder' = InsertHeader(builder, ct)
    /\ UNCHANGED <<pc, reqVars, script, avail, payload, msgVars, obsVars, waker, woken,
                   resp, config, bearer, header>>

\* <HttpResponseBuilder as ProtoBufResponseBuilder>::protobuf: the header is
\* inserted first, then the value is encoded; `?` returns the Serialize
\* error before self.body(body) is reached, and body() takes the response
\* head out of the builder.
Protobuf(value, remaining) ==
    /\ resp = NoResp
    /\ builder.res = "Some"
    /\ LET tagged == InsertHeader(builder, PROTOBUF)
           body == Encode(value)
       IN  IF Len(body) <= remaining
           THEN /\ resp' = [status |-> tagged.status,
                            content_type |-> tagged.content_type,
                            body |-> body, error |-> "None"]
                /\ builder' = [tagged EXCEPT !.res = "None"]
           ELSE /\ resp' = FromError(Serialize("EncodeError"))
                /\ builder' = tagged
    /\ UNCHANGED <<pc, reqVars, script, avail, payload, msgVars, obsVars, waker, woken,
                   config, bearer, header>>

NextBuilder ==
    \/ \E ct \in BuilderContentTypes : SetContentType(ct)
    \/ \E value \in Messages, remaining \in 0 .. MaxRemaining : Protobuf(value, remaining)

\* A handler answering any request through the builder.
BuilderSpec == Init /\ [][NextBuilder]_vars

\* ------------------------------------------------------------- properties
\* The declared length of the request, if the header holds one.
Declared == DeclaredLength(content_length)

\* Streaming has started: the chunk source was handed to the async block.
Streaming == fut.state # "None"

\* The outcome of the async block once it has returned.
StreamOutcome == outcomes[Len(outcomes)]

RECURSIVE ConcatData(_)
ConcatData(items) ==
    IF items = <<>> THEN <<>> ELSE Head(items).data \o ConcatData(Tail(items))

\* Bytes of the first i pulled items.
PulledBytes(i) == ConcatData(SubSeq(pulled, 1, i))

\* The i-th pulled item is a chunk that does not fit: the bytes buffered
\* before it plus its own exceed the limit of the attempt.
Crosses(i) ==
    /\ pulled[i].t = "chunk"
    /\ Len(PulledBytes(i - 1)) + Len(pulled[i].data) > fut.limit

\* C1: when the content type is not exactly "application/protobuf", the first
\* poll of the attempt returns ContentType, and no item is ever pulled from
\* the chunk source, whatever the body, the Content-Length and the limit are.
C1_ContentTypeFirst ==
    (pc = "built" /\ content_type # "application/protobuf" /\ lastPoll # "none")
        => /\ outcomes # <<>>
           /\ outcomes[1] = ContentType
           /\ pulled = <<>>
           /\ decodeCalls = <<>>

C1_Witness ==
    /\ content_type = "application/text"
    /\ outcomes = <<ContentType>>
    /\ Declared.some /\ Declared.v > limit
    /\ \E i \in 1 .. Len(avail) : avail[i].t = "chunk"
    /\ pulled = <<>>

\* C2: when the content type matches and the parseable declared length is
\* strictly greater than the limit at the first poll, that poll returns
\* Overflow, no item has been pulled and decode has not been invoked.
C2_DeclaredOverflow ==
    [][(/\ lastPoll = "none"
        /\ lastPoll' # "none"
        /\ content_type = "application/protobuf"
        /\ Declared.some
        /\ Declared.v > limit)
          => /\ lastPoll' = "Ready"
             /\ outcomes' = <<Overflow>>
             /\ pulled' = <<>>
             /\ decodeCalls' = <<>>]_vars

C2_Witness ==
    /\ content_type = "application/protobuf"
    /\ Declared.some /\ Declared.v = 4 /\ limit = 3
    /\ lastPoll = "Ready"
    /\ outcomes = <<Overflow>>
    /\ pulled = <<>>
    /\ avail # <<>>

\* C3: the accumulation buffer never holds more bytes than the limit of the
\* attempt.
C3_BufferWithinLimit ==
    Streaming => Len(fut.body) <= fut.limit

C3_Witness ==
    /\ fut.state = "Running"
    /\ fut.limit > 0
    /\ Len(fut.body) = fut.limit
    /\ Len(pulled) >= 2

\* C4: streaming ends with Overflow exactly at the first pulled chunk that
\* does not fit: no chunk before it ends the attempt with Overflow, the
\* chunk is not appended, nothing is pulled after it and decode is never
\* invoked.
C4_OverflowAtCrossingChunk ==
    Streaming =>
        /\ \A i \in 1 .. Len(pulled) :
              Crosses(i) =>
                 /\ i = Len(pulled)
                 /\ fut.state = "Done"
                 /\ StreamOutcome = Overflow
                 /\ fut.body = PulledBytes(i - 1)
                 /\ decodeCalls = <<>>
        /\ (fut.state = "Done" /\ StreamOutcome = Overflow) => Crosses(Len(pulled))

C4_Witness ==
    /\ fut.state = "Done"
    /\ Len(pulled) = 2
    /\ Crosses(2)
    /\ fut.body # <<>>
    /\ outcomes = <<Overflow>>
    /\ avail # <<>>

\* C5: once poll has returned an outcome, every later poll panics: it
\* returns no second outcome, pulls nothing from the chunk source and does
\* not invoke decode.
C5_NoPollAfterOutcome ==
    [][(outcomes # <<>> /\ Poll)
          => /\ lastPoll' = "panic"
             /\ outcomes' = outcomes
             /\ pulled' = pulled
             /\ decodeCalls' = decodeCalls]_vars

\* C6: when the source ends with end-of-stream and no chunk crossed the
\* limit, decode is invoked exactly once, after end-of-stream, on the
\* concatenation of all chunks of the body in arrival order, and the outcome
\* is the decoded message or Deserialize(error).
C6_DecodeOnceOnWholeBody ==
    /\ Len(decodeCalls) <= 1
    /\ (Streaming /\ pulled # <<>> /\ pulled[Len(pulled)].t = "eos")
          => /\ fut.state = "Done"
             /\ pulled = source
             /\ decodeCalls = <<ConcatData(source)>>
             /\ LET d == MergeFrom(ConcatData(source), 0)
                IN  StreamOutcome = IF d.ok
                                    THEN [cls |-> "Ok", msg |-> d.msg, err |-> ""]
                                    ELSE [cls |-> "Deserialize", msg |-> 0, err |-> d.err]
    /\ decodeCalls # <<>> => (Streaming /\ pulled[Len(pulled)].t = "eos")

C6_Witness ==
    /\ Len(source) = 3
    /\ source[1].data = <<8>>
    /\ source[2].data = <<1>>
    /\ decodeCalls = <<(<<8, 1>>)>>
    /\ outcomes = <<[cls |-> "Ok", msg |-> 1, err |-> ""]>>

\* C7: a transport error pulled from the chunk source ends the attempt with
\* Payload carrying that error: nothing is pulled after it, decode is never
\* invoked, and the outcome is neither Overflow nor Deserialize.
C7_TransportError ==
    Streaming =>
        \A i \in 1 .. Len(pulled) :
            pulled[i].t = "err" =>
               /\ i = Len(pulled)
               /\ fut.state = "Done"
               /\ StreamOutcome = [cls |-> "Payload", msg |-> 0, err |-> pulled[i].err]
               /\ decodeCalls = <<>>

C7_Witness ==
    /\ Len(pulled) = 2
    /\ pulled[1].t = "chunk"
    /\ pulled[2] = TransportError("Overflow")
    /\ outcomes = <<[cls |-> "Payload", msg |-> 0, err |-> "Overflow"]>>
    /\ Len(avail) = 1

\* C8: equality with the limit is accepted.  A first poll with a declared
\* length less than or equal to the limit starts streaming, and a chunk that
\* brings the buffer to at most the limit is appended and does not end the
\* attempt with Overflow.
C8_DeclaredAtLimitStreams ==
    (/\ lastPoll = "none"
     /\ lastPoll' # "none"
     /\ content_type = "application/protobuf"
     /\ Declared.some
     /\ Declared.v <= limit)
       => /\ fut'.state # "None"
          /\ fut'.limit = limit
          /\ lastPoll' # "panic"

C8_ChunkAtLimitAppended ==
    Streaming =>
        \A i \in 1 .. Len(pulled) :
            (pulled[i].t = "chunk" /\ Len(PulledBytes(i)) <= fut.limit)
               => /\ Len(fut.body) >= Len(PulledBytes(i))
                  /\ SubSeq(fut.body, 1, Len(PulledBytes(i))) = PulledBytes(i)
                  /\ ~(i = Len(pulled) /\ fut.state = "Done" /\ StreamOutcome = Overflow)

C8_EqualityAllowed ==
    [][C8_DeclaredAtLimitStreams]_vars /\ []C8_ChunkAtLimitAppended

C8_Witness ==
    /\ Declared.some
    /\ Declared.v = 2
    /\ fut.state = "Done"
    /\ fut.limit = 2
    /\ Len(fut.body) = 2
    /\ Len(pulled) = 3
    /\ Len(outcomes) = 1
    /\ outcomes[1].cls = "Ok"

\* C10: the rendering of an error is 413 Payload Too Large for Overflow and
\* 400 Bad Request for ContentType, Serialize, Deserialize and Payload.
C10_StatusMapping ==
    resp.error # "None" =>
        /\ resp.error \in {"Overflow", "ContentType", "Serialize", "Deserialize", "Payload"}
        /\ resp.error = "Overflow" => resp.status = 413
        /\ resp.error = "ContentType" => resp.status = 400
        /\ resp.error = "Serialize" => resp.status = 400
        /\ resp.error = "Deserialize" => resp.status = 400
        /\ resp.error = "Payload" => resp.status = 400

C10_Witness ==
    /\ resp.error = "Overflow"
    /\ resp.status = 413
    /\ outcomes[1] = Overflow
    /\ Streaming

\* C9: an attempt that is polled whenever its task is woken, and whose chunk
\* source keeps delivering until end-of-stream, eventually resolves; it
\* resolves once, with the decoded message, ContentType, Overflow, Payload
\* or Deserialize, never with Serialize and never by a panic.
C9_OneOutcome ==
    /\ Len(outcomes) <= 1
    /\ lastPoll # "panic"
    /\ \A i \in 1 .. Len(outcomes) :
          outcomes[i].cls \in {"Ok", "ContentType", "Overflow", "Payload", "Deserialize"}

C9_Resolves ==
    /\ []C9_OneOutcome
    /\ (pc = "built") ~> (Len(outcomes) = 1 /\ lastPoll = "Ready")

C9_Witness ==
    /\ Len(outcomes) = 1
    /\ lastPoll = "Ready"
    /\ script = <<>>
    /\ Len(pulled) = 3
    /\ ~woken

\* C11: the extractor decodes with the limit of the registered ProtoBufConfig
\* and with 262,144 when none is registered; a default ProtoBufConfig that
\* was never changed has limit 262,144; an attempt built with new() on which
\* limit() was never called decides with 262,144.
ExpectedLimit ==
    CASE pc = "extracting" /\ config.some -> config.limit
      [] OTHER -> 262144

C11_ConfiguredLimit ==
    /\ (config.some /\ config.calls = 0) => config.limit = 262144
    /\ pc \in {"extracting", "built"} =>
          /\ limit = ExpectedLimit
          /\ Streaming => fut.limit = ExpectedLimit
          /\ (/\ content_type = "application/protobuf"
              /\ Declared.some
              /\ lastPoll # "none")
                => IF Declared.v > ExpectedLimit
                   THEN /\ outcomes # <<>>
                        /\ outcomes[1] = Overflow
                        /\ pc = "extracting" => (~Streaming /\ pulled = <<>>)
                   ELSE Streaming

C11_Witness ==
    /\ pc = "extracting"
    /\ config.some /\ config.limit = 2
    /\ fut.state = "Done"
    /\ Len(fut.body) = 2
    /\ Len(pulled) = 2
    /\ outcomes = <<Overflow>>

\* C12: respond_to answers a value whose encoding succeeds with status 200,
\* Content-Type "application/protobuf" and exactly the bytes of the codec as
\* the body; when encoding fails the response is the rendering of Serialize,
\* status 400.
C12_RespondTo ==
    [][\A value \in Messages, remaining \in 0 .. MaxRemaining :
          RespondTo(value, remaining) =>
             IF Len(Encode(value)) <= remaining
             THEN /\ resp'.status = 200
                  /\ resp'.content_type = "application/protobuf"
                  /\ resp'.body = Encode(value)
                  /\ resp'.error = "None"
             ELSE /\ resp'.status = 400
                  /\ resp'.error = "Serialize"
                  /\ resp'.content_type # "application/protobuf"
                  /\ resp'.body = <<>>]_vars

C12_Witness ==
    /\ resp.status = 200
    /\ resp.content_type = "application/protobuf"
    /\ resp.body = <<8, 8>>
    /\ outcomes[1].cls = "Ok"

\* C13: the Bearer challenge renders as "Bearer" followed, for each present
\* field in the order realm, scope, error, error_description, error_uri, by
\* a space and key="value"; absent fields contribute nothing.
BearerKeys == <<"realm", "scope", "error", "error_description", "error_uri">>

\* The text a present field is rendered with.
BearerText(k) ==
    IF BearerKeys[k] = "error"
    THEN CASE bearer.error = "InvalidRequest" -> "invalid_request"
           [] bearer.error = "InvalidToken" -> "invalid_token"
           [] bearer.error = "InsufficientScope" -> "insufficient_scope"
    ELSE bearer[BearerKeys[k]]

\* Number of present fields among the first k.
PresentBefore(k) == Cardinality({ j \in 1 .. k : bearer[BearerKeys[j]] # "None" })

C13_BearerRendering ==
    header # <<>> =>
        /\ header[1] = "Bearer"
        /\ Len(header) = 1 + 5 * PresentBefore(5)
        /\ \A k \in 1 .. 5 :
              bearer[BearerKeys[k]] # "None" =>
                 LET at == 1 + 5 * PresentBefore(k - 1)
                 IN  SubSeq(header, at + 1, at + 5)
                        = <<" ", BearerKeys[k], "=\"", BearerText(k), "\"">>
        /\ bearer = NoBearer => header = <<"Bearer">>
        /\ (/\ bearer.realm = "None" /\ bearer.scope = "None" /\ bearer.error_uri = "None"
            /\ bearer.error = "InvalidToken"
            /\ bearer.error_description # "None")
              => header = <<"Bearer", " ", "error", "=\"", "invalid_token", "\"",
                            " ", "error_description", "=\"", bearer.error_description, "\"">>

C13_Witness ==
    /\ bearer.realm = "None" /\ bearer.scope = "None" /\ bearer.error_uri = "None"
    /\ bearer.error = "InvalidToken"
    /\ bearer.error_description = "Subject 8740827c-2e0a-447b-9716-d73042e4039d not found"
    /\ Len(header) = 11

\* C14: one limit governs an attempt, the value of the limit field at the
\* first poll.  The declared-length check of the first poll uses it; the
\* reader captures it when streaming starts and keeps it whatever limit()
\* sets afterwards; and the value the reader captures is the value the
\* declared length was checked against, so a reader never starts with a limit
\* that admits a declared length the attempt has already rejected.
C14_SingleGoverningLimit ==
    [][/\ (lastPoll = "none" /\ lastPoll' # "none" /\ content_type = "application/protobuf")
            => IF Declared.some /\ Declared.v > limit
               THEN outcomes' = <<Overflow>> /\ fut'.state = "None"
               ELSE fut'.state # "None" /\ fut'.limit = limit
       /\ fut.state # "None" => (fut'.state # "None" /\ fut'.limit = fut.limit)
       /\ (fut.state = "None" /\ fut'.state # "None" /\ outcomes = <<Overflow>>)
            => Declared.v > fut'.limit]_vars

\* The limit an attempt is governed by: the one the reader captured, or the
\* limit field while no reader exists.
GoverningLimit == IF Streaming THEN fut.limit ELSE limit

\* The declared length causes no early rejection: it is absent, unparseable,
\* or within the governing limit.
NoEarlyRejection == ~Declared.some \/ Declared.v <= GoverningLimit

\* The reader stops at the i-th item of a delivered sequence when that item
\* is the end of the stream, a transport error, or a chunk that takes the
\* bytes delivered so far above the limit.
StopsAt(items, lim, i) ==
    \/ items[i].t # "chunk"
    \/ Len(ConcatData(SubSeq(items, 1, i))) > lim

\* What a reader with limit lim has done once it has seen the delivered
\* items: the items it pulled and, if it resolved, its outcome.  A function
\* of the items and the limit alone.
Expected(items, lim) ==
    LET stops == { i \in 1 .. Len(items) : StopsAt(items, lim, i) }
    IN  IF stops = {}
        THEN [resolved |-> FALSE, pulled |-> items, out |-> Overflow]
        ELSE LET i == CHOOSE k \in stops : \A j \in stops : k <= j
                 body == ConcatData(SubSeq(items, 1, i - 1))
             IN  [resolved |-> TRUE,
                  pulled |-> SubSeq(items, 1, i),
                  out |-> CASE items[i].t = "eos" -> DecodeOutcome(body)
                            [] items[i].t = "err" -> FromPayloadError(items[i].err)
                            [] OTHER -> Overflow]

\* C15: the declared Content-Length is used only for early rejection.  For a
\* matching content type and a declared length that is absent, unparseable or
\* within the limit, what every poll of an unresolved attempt leaves behind
\* (the items pulled, the outcome if any) is a function of the limit and of
\* the items delivered so far, in which the declared length does not appear:
\* two attempts that differ only in such a declared length pull the same
\* chunks and resolve with the same outcome.
C15_DeclaredOnlyEarly ==
    [][(/\ PollMessage
        /\ content_type = "application/protobuf"
        /\ outcomes = <<>>
        /\ NoEarlyRejection)
         => LET e == Expected(pulled \o avail, GoverningLimit)
            IN  /\ fut'.state # "None"
                /\ fut'.limit = GoverningLimit
                /\ pulled' = e.pulled
                /\ IF e.resolved
                   THEN outcomes' = <<e.out>> /\ lastPoll' = "Ready"
                   ELSE outcomes' = <<>> /\ lastPoll' = "Pending"]_vars

\* A body longer than its declared length, within the limit, decoded whole.
C15_Witness ==
    /\ pc = "built"
    /\ Declared.some /\ Declared.v = 2
    /\ fut.state = "Done" /\ fut.limit = 3
    /\ Len(fut.body) = 3
    /\ decodeCalls = <<fut.body>>
    /\ Len(outcomes) = 1

\* The pulled items whose bytes are in the buffer: all of them, but for a
\* last chunk that did not fit.
Appended ==
    IF pulled # <<>> /\ Crosses(Len(pulled))
    THEN Len(pulled) - 1
    ELSE Len(pulled)

\* C16: the chunk source is consumed at most once and in order.  Whatever
\* number of polls an attempt gets, the items pulled, the items waiting in
\* the payload and the items still to arrive make up the source with nothing
\* repeated, skipped or reordered, and the buffer holds the pulled chunks in
\* that order; the stream is taken out of the attempt exactly when the one
\* reader is created, and neither happens a second time.
C16_ConsumedOnceInOrder ==
    [][pc = "built" =>
            /\ (pulled \o avail \o script = source)'
            /\ (Streaming => fut.body = PulledBytes(Appended))'
            /\ (~Streaming => pulled = <<>>)'
            /\ (stream = "Some" /\ stream' = "None")
                  <=> (fut.state = "None" /\ fut'.state # "None")
            /\ stream = "None" => stream' = "None"
            /\ fut.state # "None" => fut'.state # "None"
            /\ Len(pulled') >= Len(pulled)
            /\ SubSeq(pulled', 1, Len(pulled)) = pulled]_vars

\* Two chunks and the end of the stream pulled, both chunks in the buffer.
C16_Witness ==
    /\ pc = "built"
    /\ stream = "None" /\ fut.state = "Done"
    /\ pulled = source /\ Len(pulled) = 3
    /\ pulled[1].data = <<8>> /\ pulled[2].data = <<1>>
    /\ fut.body = <<8, 1>>

\* C17: in ProtoBufResponseBuilder::protobuf the content-type tag and the body
\* are attached only when serialization succeeds: a successful call answers
\* with the tag and the encoded bytes, and a failed call returns the
\* Serialize classification and leaves the builder as it was before the call.
C17_BuilderUntouchedOnFailure ==
    [][\A value \in Messages, remaining \in 0 .. MaxRemaining :
          Protobuf(value, remaining)
            => IF Len(Encode(value)) <= remaining
               THEN /\ resp'.content_type = "application/protobuf"
                    /\ resp'.body = Encode(value)
                    /\ resp'.error = "None"
               ELSE /\ resp'.error = "Serialize"
                    /\ builder' = builder]_vars

\* C18: ProtoBufMessage::new takes the chunk source out of the caller's payload
\* slot if and only if the content type is exactly "application/protobuf".  On
\* a mismatch the slot keeps the payload and the attempt never holds or reads
\* it; on a match the slot is empty and, until the first poll, the attempt
\* holds the unread stream, whatever the declared length and the limit are.
C18_PayloadTakenIffMatch ==
    /\ pc = "request" => payload = "Some"
    /\ pc = "built" =>
          /\ payload = "None" <=> content_type = "application/protobuf"
          /\ content_type # "application/protobuf"
                => /\ payload = "Some" /\ stream = "None" /\ ~Streaming
                   /\ pulled = <<>>
                   /\ avail \o script = source
          /\ (content_type = "application/protobuf" /\ lastPoll = "none")
                => /\ payload = "None" /\ stream = "Some"
                   /\ pulled = <<>>

\* The payload was moved into an attempt that rejected the declared length
\* without reading any of the delivered body.
C18_Witness ==
    /\ pc = "built" /\ content_type = "application/protobuf"
    /\ payload = "None" /\ stream = "Some"
    /\ outcomes = <<Overflow>> /\ pulled = <<>> /\ Len(avail) = 2

\* On a mismatch the payload stays with the caller, delivered items unread.
C18_WitnessMismatch ==
    /\ pc = "built" /\ content_type = "application/text"
    /\ payload = "Some" /\ outcomes = <<ContentType>> /\ Len(avail) = 2

\* C19: a poll returns Pending only when the payload has nothing available.
\* A poll that suspends has pulled every item that was available and leaves a
\* running reader; the poll that creates the reader drives it at once, so a
\* first poll that finds the whole body and the end of the stream delivered
\* returns the outcome of the attempt.
C19_PendingOnlyWhenStarved ==
    [][PollMessage =>
          /\ lastPoll' = "Pending"
                => /\ fut'.state = "Running"
                   /\ avail' = <<>>
                   /\ pulled' = pulled \o avail
                   /\ outcomes' = outcomes
          /\ (lastPoll = "none" /\ script = <<>>)
                => /\ lastPoll' = "Ready"
                   /\ Len(outcomes') = 1
          /\ (fut.state = "None" /\ fut'.state # "None")
                => IF \E i \in 1 .. Len(avail) : StopsAt(avail, limit, i)
                   THEN lastPoll' = "Ready"
                   ELSE lastPoll' = "Pending"]_vars

\* A poll took the two chunks that were available and suspended, the end of
\* the stream not yet delivered.
C19_Witness ==
    /\ pc = "built"
    /\ lastPoll = "Pending" /\ fut.state = "Running"
    /\ Len(pulled) = 2 /\ Len(fut.body) = 2
    /\ avail = <<>> /\ script # <<>>

====
